---- MODULE Spec2Model ----
\* Content indexing pipeline of BizSkill (backend/app/workers/tasks.py and the
\* operations that enqueue it): the per-video status machine, the chained
\* Celery stage tasks with their retries, the reset operations and
\* delete_video; the search endpoint with its rank fusion
\* (backend/app/api/v1/endpoints/search.py, backend/app/services/search_service.py);
\* the maintenance tasks (backend/app/workers/maintenance_tasks.py),
\* delete_channel, the category linking of generate_insights and the view
\* counter of get_segment.
EXTENDS Integers, Sequences, FiniteSets, TLC

\* ---------------------------------------------------------------- bounds
NumVideos == 2
MaxRuns == 2
MaxFaults == 3
MaxLost == 1
MaxCandidates == 1
MaxSegments == 2
MaxPoints == 2
NumDeletable == 1
NumIds == 4
MaxListLen == 3
MaxLimit == 3
NumNames == 3
MaxLabels == 3
MaxRequests == 3
MaxViews == 1

\* ------------------------------------------------------ program constants
min_segment_duration_seconds == 30
max_segment_duration_seconds == 300
DownloadMaxRetries == 3
StageMaxRetries == 2
RRF_K == 60

Videos == 1 .. NumVideos

\* VideoStatus enum
PENDING == "pending"
DOWNLOADING == "downloading"
TRANSCRIBING == "transcribing"
SEGMENTING == "segmenting"
EMBEDDING == "embedding"
INDEXED == "indexed"
FAILED == "failed"
REMOVED == "removed"

\* Mapped attributes of the Video ORM class that the operations touch.
VideoColumns == {"id", "youtube_id", "channel_id", "original_title", "title",
                 "description", "thumbnail_url", "duration_seconds",
                 "published_at", "view_count", "status", "transcript",
                 "transcript_segments", "processing_error", "processed_at",
                 "created_at", "updated_at"}

\* The chain built by process_video, in order.
PipelineAlt == <<"download_audio", "segment_transcript", "transcribe_audio",
                 "generate_insights", "create_embeddings", "cleanup_and_finalize">>

Pipeline == <<"download_audio", "transcribe_audio", "segment_transcript",
              "generate_insights", "create_embeddings", "cleanup_and_finalize">>

StageIndex(s) == CHOOSE i \in 1 .. Len(Pipeline) : Pipeline[i] = s

\* max_retries of each stage task's decorator.
MaxRetries(s) == IF s = "download_audio" THEN DownloadMaxRetries ELSE StageMaxRetries

\* Prefix of the processing_error each stage's except block writes.
ErrorText(s) ==
    CASE s = "download_audio" -> "Audio download failed"
      [] s = "transcribe_audio" -> "Transcription failed"
      [] s = "segment_transcript" -> "Segmentation failed"
      [] s = "generate_insights" -> "Insight generation failed"
      [] s = "create_embeddings" -> "Embedding failed"

\* Candidate windows <<start_time, end_time>> the segmentation LLM may propose.
Windows == {<<0, 20>>, <<30, 120>>, <<0, 400>>}

RECURSIVE SeqsUpTo(_, _)
SeqsUpTo(S, n) ==
    IF n = 0 THEN {<<>>}
    ELSE LET shorter == SeqsUpTo(S, n - 1)
         IN shorter \cup {Append(q, x) : q \in {r \in shorter : Len(r) = n - 1}, x \in S}

Proposals == SeqsUpTo(Windows, MaxCandidates)

\* A filter that checks the lower bound only.
RECURSIVE AcceptedSegmentsAlt(_)
AcceptedSegmentsAlt(proposal) ==
    IF proposal = <<>> THEN <<>>
    ELSE LET seg == Head(proposal)
             duration == seg[2] - seg[1]
             rest == AcceptedSegmentsAlt(Tail(proposal))
         IN IF duration >= min_segment_duration_seconds
            THEN <<seg>> \o rest
            ELSE rest

\* identify_segments: keep a proposed window only if its duration is in bounds.
RECURSIVE AcceptedSegments(_)
AcceptedSegments(proposal) ==
    IF proposal = <<>> THEN <<>>
    ELSE LET seg == Head(proposal)
             duration == seg[2] - seg[1]
             rest == AcceptedSegments(Tail(proposal))
         IN IF duration >= min_segment_duration_seconds
               /\ duration <= max_segment_duration_seconds
            THEN <<seg>> \o rest
            ELSE rest

VARIABLES
    video,        \* videos table: per video id, the row (present = row exists)
    segments,     \* segments table: set of rows
    vectors,      \* vector index: set of points
    queue,        \* process_video messages in the broker, per video id
    chains,       \* the chains created by process_video, with the current task
    nextSegId,    \* fresh Segment.id (uuid4)
    nextPointId,  \* fresh point id (uuid4)
    faults,       \* exceptions raised so far
    lost,         \* workers lost so far
    search,       \* the search request being served and its response
    sweep,        \* the run of check_video_availability and its session
    linking,      \* the category linking of generate_insights for one segment
    views         \* the get_segment requests being served

\* The variables of the indexing pipeline.
pipeline == <<video, segments, vectors, queue, chains, nextSegId, nextPointId,
              faults, lost>>

\* The state of the operations beside the pipeline.
beside == <<search, sweep, linking, views>>

vars == <<video, segments, vectors, queue, chains, nextSegId, nextPointId,
          faults, lost, search, sweep, linking, views>>

\* A row of videos.  failed_by is history: the chain whose except block wrote
\* failed last (0: none).  deleting: a delete_video request has passed its
\* vector-index delete; deleted: the row was deleted (its id is not used again).
NoVideo == [present |-> FALSE, status |-> PENDING, processing_error |-> "", failed_by |-> 0,
            transcript |-> FALSE, processed_at |-> FALSE,
            deleting |-> FALSE, deleted |-> FALSE]

\* No search request.
NoSearch == [phase |-> "none"]

\* No availability sweep.
NoSweep == [phase |-> "none", videos |-> {}, todo |-> {}, marked |-> {}, purged |-> {}]

\* No category linking and no get_segment request observed.
NoLinking == [phase |-> "none"]

NoViews == [phase |-> "none"]

\* Nothing polled yet.
NoPipeline ==
    /\ video = [v \in Videos |-> NoVideo]
    /\ segments = {}
    /\ vectors = {}
    /\ queue = [v \in Videos |-> 0]
    /\ chains = <<>>
    /\ nextSegId = 1
    /\ nextPointId = 1
    /\ faults = 0
    /\ lost = 0

\* Nothing but the pipeline is observed.
NoBeside == sweep = NoSweep /\ linking = NoLinking /\ views = NoViews

Init ==
    /\ NoPipeline
    /\ search = NoSearch
    /\ NoBeside

RECURSIVE SumTo(_, _)
SumTo(f, n) == IF n = 0 THEN 0 ELSE f[n] + SumTo(f, n - 1)

\* Pipeline runs requested so far (queued process_video messages and chains).
Runs == Len(chains) + SumTo(queue, NumVideos)

\* Chain ids: those a run may get, and those in use.
ChainSlots == 1 .. MaxRuns

ChainIds == 1 .. Len(chains)

Active(c) == chains[c].pc \in {"queued", "running"}

ActiveChains(v) == {c \in ChainIds : chains[c].video = v /\ Active(c)}


\* A chain as applied by process_video: the task it is at (stage, pc, retries
\* = request.retries), the value handed from task to task (segs, created) and
\* the loop position of create_embeddings (idx).  started, succeeded, commits
\* and dropped are history: the stages that have begun, the stages that have
\* returned, the number of commits generate_insights has made, and the number
\* of candidates identify_segments left out.  loaded tells whether the Video
\* object cleanup_and_finalize holds in its session has a processing_error.
\* unavailable is history: download_audio has met a source that is removed or
\* private.
NewChain(v) == [video |-> v, stage |-> Pipeline[1], pc |-> "queued", retries |-> 0,
                segs |-> <<>>, created |-> <<>>, idx |-> 0, loaded |-> FALSE,
                started |-> {}, succeeded |-> {}, commits |-> 0, dropped |-> 0,
                unavailable |-> FALSE]

\* Celery chain: the successor is enqueued once the task has returned.
Advance(ch) ==
    LET i == StageIndex(ch.stage)
        ok == [ch EXCEPT !.succeeded = @ \cup {ch.stage}, !.retries = 0, !.idx = 0]
    IN IF i = Len(Pipeline) THEN [ok EXCEPT !.pc = "done"]
       ELSE [ok EXCEPT !.stage = Pipeline[i + 1], !.pc = "queued"]

\* self.retry(exc=e): re-enqueue the same task until max_retries is used up.
RetryOrDieAlt(ch) == [ch EXCEPT !.pc = "dead"]

RetryOrDie(ch) ==
    IF ch.retries < MaxRetries(ch.stage)
    THEN [ch EXCEPT !.retries = @ + 1, !.pc = "queued", !.idx = 0]
    ELSE [ch EXCEPT !.pc = "dead"]

\* The except block of a stage: mark the video failed and commit.
MarkFailed(row, c, s) ==
    IF row.present
    THEN [row EXCEPT !.status = FAILED, !.processing_error = ErrorText(s), !.failed_by = c]
    ELSE row

\* A stage raises: except block, then self.retry.
Raise(c, s) ==
    /\ faults < MaxFaults
    /\ faults' = faults + 1
    /\ video' = [video EXCEPT ![chains[c].video] = MarkFailed(@, c, s)]
    /\ chains' = [chains EXCEPT ![c] = RetryOrDie(@)]

\* First commit of a stage: the video row gets the stage's in-progress status.
Begin(c, s, st) ==
    /\ c \in ChainIds
    /\ chains[c].stage = s
    /\ chains[c].pc = "queued"
    /\ video[chains[c].video].present
    /\ video' = [video EXCEPT ![chains[c].video].status = st]
    /\ chains' = [chains EXCEPT ![c].pc = "running", ![c].started = @ \cup {s}]

Running(c, s) == c \in ChainIds /\ chains[c].stage = s /\ chains[c].pc = "running"

\* ------------------------------------------------------------ entry points

\* poll_channel: a video unknown so far is inserted as pending and queued.
PollChannel(v) ==
    /\ ~video[v].present
    /\ ~video[v].deleted
    /\ Runs < MaxRuns
    /\ video' = [video EXCEPT ![v] = [NoVideo EXCEPT !.present = TRUE]]
    /\ queue' = [queue EXCEPT ![v] = @ + 1]
    /\ UNCHANGED <<segments, vectors, chains, nextSegId, nextPointId, faults, lost, beside>>

\* process_video: build the chain and apply it.
ProcessVideo(v) ==
    /\ queue[v] > 0
    /\ queue' = [queue EXCEPT ![v] = @ - 1]
    /\ chains' = Append(chains, NewChain(v))
    /\ UNCHANGED <<video, segments, vectors, nextSegId, nextPointId, faults, lost, beside>>

\* ------------------------------------------------------------ stage 1

DownloadBegin(c) ==
    /\ Begin(c, "download_audio", DOWNLOADING)
    /\ UNCHANGED <<segments, vectors, queue, nextSegId, nextPointId, faults, lost, beside>>

DownloadReturn(c) ==
    /\ Running(c, "download_audio")
    /\ video[chains[c].video].present
    /\ chains' = [chains EXCEPT ![c] = Advance(@)]
    /\ UNCHANGED <<video, segments, vectors, queue, nextSegId, nextPointId, faults, lost, beside>>

DownloadRaise(c) ==
    /\ Running(c, "download_audio")
    /\ Raise(c, "download_audio")
    /\ UNCHANGED <<segments, vectors, queue, nextSegId, nextPointId, lost, beside>>

\* The source is removed or private: yt-dlp raises, AudioExtractionService
\* logs and raises again, and the task's except block treats the exception
\* like any other (mark failed, commit, self.retry).
DownloadUnavailable(c) ==
    /\ Running(c, "download_audio")
    /\ faults < MaxFaults
    /\ faults' = faults + 1
    /\ video' = [video EXCEPT ![chains[c].video] = MarkFailed(@, c, "download_audio")]
    /\ chains' = [chains EXCEPT ![c] = RetryOrDie([@ EXCEPT !.unavailable = TRUE])]
    /\ UNCHANGED <<segments, vectors, queue, nextSegId, nextPointId, lost, beside>>

\* ------------------------------------------------------------ stage 2

TranscribeBegin(c) ==
    /\ Begin(c, "transcribe_audio", TRANSCRIBING)
    /\ UNCHANGED <<segments, vectors, queue, nextSegId, nextPointId, faults, lost, beside>>

TranscribeReturn(c) ==
    /\ Running(c, "transcribe_audio")
    /\ video[chains[c].video].present
    /\ video' = [video EXCEPT ![chains[c].video].transcript = TRUE]
    /\ chains' = [chains EXCEPT ![c] = Advance(@)]
    /\ UNCHANGED <<segments, vectors, queue, nextSegId, nextPointId, faults, lost, beside>>

TranscribeRaise(c) ==
    /\ Running(c, "transcribe_audio")
    /\ Raise(c, "transcribe_audio")
    /\ UNCHANGED <<segments, vectors, queue, nextSegId, nextPointId, lost, beside>>

\* ------------------------------------------------------------ stage 3

SegmentBegin(c) ==
    /\ Begin(c, "segment_transcript", SEGMENTING)
    /\ UNCHANGED <<segments, vectors, queue, nextSegId, nextPointId, faults, lost, beside>>

SegmentReturn(c) ==
    /\ Running(c, "segment_transcript")
    /\ video[chains[c].video].present
    /\ \E proposal \in Proposals :
          chains' = [chains EXCEPT ![c] =
                        [Advance(@) EXCEPT
                            !.segs = AcceptedSegments(proposal),
                            !.dropped = Len(proposal) - Len(AcceptedSegments(proposal))]]
    /\ UNCHANGED <<video, segments, vectors, queue, nextSegId, nextPointId, faults, lost, beside>>

SegmentRaise(c) ==
    /\ Running(c, "segment_transcript")
    /\ Raise(c, "segment_transcript")
    /\ UNCHANGED <<segments, vectors, queue, nextSegId, nextPointId, lost, beside>>

\* ------------------------------------------------------------ stage 4

\* One Segment row per accepted candidate, ids taken from first on.
NewSegments(v, segs, first) ==
    {[id |-> first + i - 1, video_id |-> v, start_time |-> segs[i][1],
      end_time |-> segs[i][2], embedding_id |-> 0] : i \in 1 .. Len(segs)}

\* created_segments, the payload handed to create_embeddings.
CreatedSegments(segs, first) ==
    [i \in 1 .. Len(segs) |-> [segment_id |-> first + i - 1,
                                start_time |-> segs[i][1], end_time |-> segs[i][2]]]

InsightsReady(c) ==
    /\ c \in ChainIds
    /\ chains[c].stage = "generate_insights"
    /\ chains[c].pc = "queued"
    /\ video[chains[c].video].present

InsightsCommit(c) ==
    /\ nextSegId + Len(chains[c].segs) - 1 <= MaxSegments
    /\ segments' = segments \cup NewSegments(chains[c].video, chains[c].segs, nextSegId)
    /\ nextSegId' = nextSegId + Len(chains[c].segs)

\* generate_insights runs to its single commit and returns.
InsightsReturn(c) ==
    /\ InsightsReady(c)
    /\ InsightsCommit(c)
    /\ chains' = [chains EXCEPT ![c] =
                    [Advance([@ EXCEPT !.started = @ \cup {"generate_insights"}])
                        EXCEPT !.created = CreatedSegments(chains[c].segs, nextSegId),
                               !.commits = @ + 1]]
    /\ UNCHANGED <<video, vectors, queue, nextPointId, faults, lost, beside>>

\* generate_insights raises before its commit: rollback, mark failed, retry.
InsightsRaise(c) ==
    /\ InsightsReady(c)
    /\ faults < MaxFaults
    /\ faults' = faults + 1
    /\ video' = [video EXCEPT ![chains[c].video] = MarkFailed(@, c, "generate_insights")]
    /\ chains' = [chains EXCEPT ![c] =
                    RetryOrDie([@ EXCEPT !.started = @ \cup {"generate_insights"}])]
    /\ UNCHANGED <<segments, vectors, queue, nextSegId, nextPointId, lost, beside>>

\* The worker is lost after the commit and before the acknowledgement
\* (task_acks_late, task_reject_on_worker_lost): the message is redelivered.
InsightsLost(c) ==
    /\ InsightsReady(c)
    /\ lost < MaxLost
    /\ lost' = lost + 1
    /\ InsightsCommit(c)
    /\ chains' = [chains EXCEPT ![c].started = @ \cup {"generate_insights"},
                                ![c].commits = @ + 1]
    /\ UNCHANGED <<video, vectors, queue, nextPointId, faults, beside>>

\* ------------------------------------------------------------ stage 5

EmbeddingsBegin(c) ==
    /\ Begin(c, "create_embeddings", EMBEDDING)
    /\ UNCHANGED <<segments, vectors, queue, nextSegId, nextPointId, faults, lost, beside>>

\* One pass of the loop: store the embedding, save the reference, commit.
EmbeddingsStore(c) ==
    /\ Running(c, "create_embeddings")
    /\ chains[c].idx < Len(chains[c].created)
    /\ LET seg_data == chains[c].created[chains[c].idx + 1]
           rows == {s \in segments : s.id = seg_data.segment_id}
       IN IF rows = {}
          THEN UNCHANGED <<segments, vectors, nextPointId>>
          ELSE /\ nextPointId <= MaxPoints
               /\ vectors' = vectors \cup {[id |-> nextPointId,
                                            segment_id |-> seg_data.segment_id,
                                            video_id |-> chains[c].video]}
               /\ segments' = (segments \ rows)
                                \cup {[s EXCEPT !.embedding_id = nextPointId] : s \in rows}
               /\ nextPointId' = nextPointId + 1
    /\ chains' = [chains EXCEPT ![c].idx = @ + 1]
    /\ UNCHANGED <<video, queue, nextSegId, faults, lost, beside>>

EmbeddingsReturn(c) ==
    /\ Running(c, "create_embeddings")
    /\ chains[c].idx = Len(chains[c].created)
    /\ chains' = [chains EXCEPT ![c] = Advance(@)]
    /\ UNCHANGED <<video, segments, vectors, queue, nextSegId, nextPointId, faults, lost, beside>>

EmbeddingsRaise(c) ==
    /\ Running(c, "create_embeddings")
    /\ Raise(c, "create_embeddings")
    /\ UNCHANGED <<segments, vectors, queue, nextSegId, nextPointId, lost, beside>>

\* ------------------------------------------------------------ stage 6

FinalizeReady(c) ==
    /\ c \in ChainIds
    /\ chains[c].stage = "cleanup_and_finalize"
    /\ chains[c].pc = "queued"
    /\ video[chains[c].video].present

Finalized(ch) ==
    Advance([ch EXCEPT !.started = @ \cup {"cleanup_and_finalize"}, !.loaded = FALSE])

\* cleanup_and_finalize loads the Video row into its session; the audio files
\* are removed next.
FinalizeBegin(c) ==
    /\ FinalizeReady(c)
    /\ chains' = [chains EXCEPT ![c].pc = "running",
                                ![c].started = @ \cup {"cleanup_and_finalize"},
                                ![c].loaded = (video[chains[c].video].processing_error # "")]
    /\ UNCHANGED <<video, segments, vectors, queue, nextSegId, nextPointId, faults, lost, beside>>

\* The UPDATE the commit flushes: status and processed_at, and processing_error
\* only if the loaded object held one (an attribute set to the value it was
\* loaded with is not written).
FinalizeUpdate(row, loaded) ==
    [row EXCEPT !.status = INDEXED, !.processed_at = TRUE,
                !.processing_error = IF loaded THEN "" ELSE @]

\* cleanup_and_finalize marks the video indexed and commits.
FinalizeReturn(c) ==
    /\ Running(c, "cleanup_and_finalize")
    /\ video[chains[c].video].present
    /\ video' = [video EXCEPT ![chains[c].video] = FinalizeUpdate(@, chains[c].loaded)]
    /\ chains' = [chains EXCEPT ![c] = Finalized(@)]
    /\ UNCHANGED <<segments, vectors, queue, nextSegId, nextPointId, faults, lost, beside>>

\* An exception before the commit is logged by the except block and dropped;
\* the task has no retry and returns normally.
FinalizeRaise(c) ==
    /\ Running(c, "cleanup_and_finalize")
    /\ faults < MaxFaults
    /\ faults' = faults + 1
    /\ chains' = [chains EXCEPT ![c] = Finalized(@)]
    /\ UNCHANGED <<video, segments, vectors, queue, nextSegId, nextPointId, lost, beside>>

\* ------------------------------------------------------------ the broker

\* A broker that acknowledged on receipt would drop the task with the worker.
WorkerLostAlt(c) ==
    /\ c \in ChainIds
    /\ chains[c].pc = "running"
    /\ lost < MaxLost
    /\ lost' = lost + 1
    /\ chains' = [chains EXCEPT ![c].pc = "lost"]
    /\ UNCHANGED <<video, segments, vectors, queue, nextSegId, nextPointId, faults, beside>>

\* The worker running a task is lost before the task returns: the message is
\* redelivered and the task starts again.
WorkerLost(c) ==
    /\ c \in ChainIds
    /\ chains[c].pc = "running"
    /\ lost < MaxLost
    /\ lost' = lost + 1
    /\ chains' = [chains EXCEPT ![c].pc = "queued", ![c].idx = 0]
    /\ UNCHANGED <<video, segments, vectors, queue, nextSegId, nextPointId, faults, beside>>

\* ------------------------------------------------------------ delete_video

\* delete_video, first part: the row is found and delete_video_embeddings
\* removes the points whose payload carries the video_id.
DeleteVideoEmbeddings(v) ==
    /\ video[v].present
    /\ ~video[v].deleting
    /\ vectors' = {p \in vectors : p.video_id # v}
    /\ video' = [video EXCEPT ![v].deleting = TRUE]
    /\ UNCHANGED <<segments, queue, chains, nextSegId, nextPointId, faults, lost, beside>>

\* The vector store raises: delete_video_embeddings logs and returns 0.
DeleteVideoEmbeddingsFail(v) ==
    /\ video[v].present
    /\ ~video[v].deleting
    /\ faults < MaxFaults
    /\ faults' = faults + 1
    /\ video' = [video EXCEPT ![v].deleting = TRUE]
    /\ UNCHANGED <<segments, vectors, queue, chains, nextSegId, nextPointId, lost, beside>>

\* delete_video, second part: db.delete(video) and commit; the Segment rows go
\* with the row (cascade).
DeleteVideoRow(v) ==
    /\ video[v].present
    /\ video[v].deleting
    /\ video' = [video EXCEPT ![v] = [NoVideo EXCEPT !.deleted = TRUE]]
    /\ segments' = {s \in segments : s.video_id # v}
    /\ UNCHANGED <<vectors, queue, chains, nextSegId, nextPointId, faults, lost, beside>>

\* A stage task whose video row is gone: "Video not found" at its start, or
\* (stages 1 to 3) a failing refresh or commit of the loaded object; the
\* except block finds no row to mark and the task is retried.
VideoGone(c) ==
    /\ c \in ChainIds
    /\ ~video[chains[c].video].present
    /\ \/ /\ chains[c].pc = "queued"
          /\ chains[c].stage # "cleanup_and_finalize"
       \/ /\ chains[c].pc = "running"
          /\ chains[c].stage \in {"download_audio", "transcribe_audio", "segment_transcript"}
    /\ chains' = [chains EXCEPT ![c] = RetryOrDie([@ EXCEPT !.started = @ \cup {chains[c].stage}])]
    /\ UNCHANGED <<video, segments, vectors, queue, nextSegId, nextPointId, faults, lost, beside>>

\* cleanup_and_finalize whose video row is gone: it returns (no row found at
\* its start, or the exception of its commit is logged and dropped).
FinalizeGone(c) ==
    /\ c \in ChainIds
    /\ ~video[chains[c].video].present
    /\ chains[c].stage = "cleanup_and_finalize"
    /\ chains[c].pc \in {"queued", "running"}
    /\ chains' = [chains EXCEPT ![c] = Finalized(@)]
    /\ UNCHANGED <<video, segments, vectors, queue, nextSegId, nextPointId, faults, lost, beside>>

\* ------------------------------------------------------------ resets

\* reprocess_video: no status check; error_message is not a column of Video,
\* so processing_error keeps its value.
ReprocessVideo(v) ==
    /\ video[v].present
    /\ Runs < MaxRuns
    /\ video' = [video EXCEPT ![v].status = PENDING]
    /\ queue' = [queue EXCEPT ![v] = @ + 1]
    /\ UNCHANGED <<segments, vectors, chains, nextSegId, nextPointId, faults, lost, beside>>

InProgress == {PENDING, DOWNLOADING, TRANSCRIBING, SEGMENTING, EMBEDDING}

\* dev_reprocess_pending: every video in an in-progress status is reset and queued.
DevReprocessPending ==
    LET stuck == {v \in Videos : video[v].present /\ video[v].status \in InProgress}
    IN /\ stuck # {}
       /\ Runs + Cardinality(stuck) <= MaxRuns
       /\ video' = [v \in Videos |->
                      IF v \in stuck
                      THEN [video[v] EXCEPT !.status = PENDING, !.processing_error = ""]
                      ELSE video[v]]
       /\ queue' = [v \in Videos |-> IF v \in stuck THEN queue[v] + 1 ELSE queue[v]]
       /\ UNCHANGED <<segments, vectors, chains, nextSegId, nextPointId, faults, lost, beside>>

\* process_single_video_by_youtube_id on a video that is failed or unknown.
\* Reading existing.retry_count, and passing publish_date to Video(...), raise
\* when Video has no such attribute; the except block rolls back and returns
\* an error.  (On any other video the task only reads.)
ProcessSingleVideoByYoutubeId(v) ==
    LET row == video[v]
        retrying == row.present /\ row.status = FAILED
        creating == ~row.present
    IN /\ retrying \/ creating
       /\ IF (retrying /\ "retry_count" \in VideoColumns)
             \/ (creating /\ "publish_date" \in VideoColumns)
          THEN /\ Runs < MaxRuns
               /\ video' = [video EXCEPT ![v] =
                               IF retrying THEN [row EXCEPT !.status = PENDING]
                               ELSE [NoVideo EXCEPT !.present = TRUE]]
               /\ queue' = [queue EXCEPT ![v] = @ + 1]
               /\ UNCHANGED faults
          ELSE /\ faults < MaxFaults
               /\ faults' = faults + 1
               /\ UNCHANGED <<video, queue>>
       /\ UNCHANGED <<segments, vectors, chains, nextSegId, nextPointId, lost, beside>>

\* ------------------------------------------------------------ specification

\* Any step of a stage task of chain c.
StageStep(c) ==
    \/ DownloadBegin(c) \/ DownloadReturn(c) \/ DownloadRaise(c)
    \/ TranscribeBegin(c) \/ TranscribeReturn(c) \/ TranscribeRaise(c)
    \/ SegmentBegin(c) \/ SegmentReturn(c) \/ SegmentRaise(c)
    \/ InsightsReturn(c) \/ InsightsRaise(c) \/ InsightsLost(c)
    \/ EmbeddingsBegin(c) \/ EmbeddingsStore(c) \/ EmbeddingsReturn(c) \/ EmbeddingsRaise(c)
    \/ FinalizeBegin(c) \/ FinalizeReturn(c) \/ FinalizeRaise(c)
    \/ WorkerLost(c)

\* A stage task of chain c raises an exception.
StageRaise(c) ==
    \/ DownloadRaise(c) \/ TranscribeRaise(c) \/ SegmentRaise(c)
    \/ InsightsRaise(c) \/ EmbeddingsRaise(c) \/ FinalizeRaise(c)

Next ==
    \/ \E v \in Videos : PollChannel(v)
    \/ \E v \in Videos : ProcessVideo(v)
    \/ \E c \in ChainSlots : DownloadBegin(c)
    \/ \E c \in ChainSlots : DownloadReturn(c)
    \/ \E c \in ChainSlots : DownloadRaise(c)
    \/ \E c \in ChainSlots : TranscribeBegin(c)
    \/ \E c \in ChainSlots : TranscribeReturn(c)
    \/ \E c \in ChainSlots : TranscribeRaise(c)
    \/ \E c \in ChainSlots : SegmentBegin(c)
    \/ \E c \in ChainSlots : SegmentReturn(c)
    \/ \E c \in ChainSlots : SegmentRaise(c)
    \/ \E c \in ChainSlots : InsightsReturn(c)
    \/ \E c \in ChainSlots : InsightsRaise(c)
    \/ \E c \in ChainSlots : InsightsLost(c)
    \/ \E c \in ChainSlots : EmbeddingsBegin(c)
    \/ \E c \in ChainSlots : EmbeddingsStore(c)
    \/ \E c \in ChainSlots : EmbeddingsReturn(c)
    \/ \E c \in ChainSlots : EmbeddingsRaise(c)
    \/ \E c \in ChainSlots : FinalizeBegin(c)
    \/ \E c \in ChainSlots : FinalizeReturn(c)
    \/ \E c \in ChainSlots : FinalizeRaise(c)
    \/ \E c \in ChainSlots : WorkerLost(c)
    \/ \E v \in Videos : ReprocessVideo(v)
    \/ DevReprocessPending
    \/ \E v \in Videos : ProcessSingleVideoByYoutubeId(v)

Spec == Init /\ [][Next]_vars

\* The videos of the runs with delete_video.
Deletable == 1 .. NumDeletable

\* The pipeline (one chain per video) together with delete_video.
NextDelete ==
    \/ \E v \in Deletable : PollChannel(v)
    \/ \E v \in Deletable : ProcessVideo(v)
    \/ \E c \in ChainSlots : DownloadBegin(c)
    \/ \E c \in ChainSlots : DownloadReturn(c)
    \/ \E c \in ChainSlots : DownloadRaise(c)
    \/ \E c \in ChainSlots : TranscribeBegin(c)
    \/ \E c \in ChainSlots : TranscribeReturn(c)
    \/ \E c \in ChainSlots : TranscribeRaise(c)
    \/ \E c \in ChainSlots : SegmentBegin(c)
    \/ \E c \in ChainSlots : SegmentReturn(c)
    \/ \E c \in ChainSlots : SegmentRaise(c)
    \/ \E c \in ChainSlots : InsightsReturn(c)
    \/ \E c \in ChainSlots : InsightsRaise(c)
    \/ \E c \in ChainSlots : InsightsLost(c)
    \/ \E c \in ChainSlots : EmbeddingsBegin(c)
    \/ \E c \in ChainSlots : EmbeddingsStore(c)
    \/ \E c \in ChainSlots : EmbeddingsReturn(c)
    \/ \E c \in ChainSlots : EmbeddingsRaise(c)
    \/ \E c \in ChainSlots : FinalizeBegin(c)
    \/ \E c \in ChainSlots : FinalizeReturn(c)
    \/ \E c \in ChainSlots : FinalizeRaise(c)
    \/ \E c \in ChainSlots : WorkerLost(c)
    \/ \E c \in ChainSlots : VideoGone(c)
    \/ \E c \in ChainSlots : FinalizeGone(c)
    \/ \E v \in Deletable : DeleteVideoEmbeddings(v)
    \/ \E v \in Deletable : DeleteVideoEmbeddingsFail(v)
    \/ \E v \in Deletable : DeleteVideoRow(v)

SpecDelete == Init /\ [][NextDelete]_vars

\* ------------------------------------------------------------ status graph

StageEdges == {<<PENDING, DOWNLOADING>>, <<DOWNLOADING, TRANSCRIBING>>,
               <<TRANSCRIBING, SEGMENTING>>, <<SEGMENTING, EMBEDDING>>,
               <<EMBEDDING, INDEXED>>}

NonTerminal == {PENDING, DOWNLOADING, TRANSCRIBING, SEGMENTING, EMBEDDING}

\* A status change a stage task may make according to the state graph.
GraphStep(a, b) == <<a, b>> \in StageEdges \/ (a \in NonTerminal /\ b = FAILED)

\* C1: every status change made by a pipeline stage task, retries included,
\* follows an edge of pending -> downloading -> transcribing -> segmenting ->
\* embedding -> indexed or goes from a non-terminal status to failed.
C1_StageChangesFollowGraph ==
    [][\A c \in ChainIds :
          StageStep(c) =>
              \A v \in Videos :
                  video'[v].status # video[v].status
                      => GraphStep(video[v].status, video'[v].status)]_vars

\* C2: a reset moves a video back to pending only from failed.
C2_ResetOnlyFromFailed ==
    [][\A v \in Videos :
          (video[v].present /\ video[v].status # PENDING /\ video'[v].status = PENDING)
              => video[v].status = FAILED]_vars

SegmentsOf(v) == {s \in segments : s.video_id = v}

\* C3: a stage's data and the status advance are committed together: the
\* transcript with the advance to transcribing, new Segment rows with a
\* status advance, embedding_id values with a status advance.
C3_DataWithStatusAdvance ==
    [][\A v \in Videos :
          /\ (video[v].status # TRANSCRIBING /\ video'[v].status = TRANSCRIBING)
                => video'[v].transcript
          /\ (video'[v].transcript /\ ~video[v].transcript)
                => video'[v].status # video[v].status
          /\ {s.id : s \in SegmentsOf(v)'} # {s.id : s \in SegmentsOf(v)}
                => video'[v].status # video[v].status
          /\ {s.embedding_id : s \in SegmentsOf(v)'} # {s.embedding_id : s \in SegmentsOf(v)}
                => video'[v].status # video[v].status]_vars

\* C4: executing generate_insights again for the same chain (redelivery,
\* retry) leaves the Segment rows as they were after the first execution.
C4_RerunAddsNoSegments ==
    [][\A c \in ChainIds :
          ((InsightsReturn(c) \/ InsightsLost(c)) /\ chains[c].commits >= 1)
              => segments' = segments]_vars

\* C5: at most one pipeline chain is active for a video at any time.
C5_OneChainPerVideo ==
    \A v \in Videos : Cardinality(ActiveChains(v)) <= 1

\* The order of the stages within a chain.
C6_Order == <<"download_audio", "transcribe_audio", "segment_transcript",
              "generate_insights", "create_embeddings", "cleanup_and_finalize">>

\* C6: within a chain a stage has started only if the stage before it, in
\* the order download_audio .. cleanup_and_finalize, has returned successfully.
C6_StagesInOrder ==
    \A c \in ChainIds :
        /\ chains[c].started \subseteq {C6_Order[i] : i \in 1 .. Len(C6_Order)}
        /\ \A i \in 2 .. Len(C6_Order) :
              C6_Order[i] \in chains[c].started => C6_Order[i - 1] \in chains[c].succeeded
        /\ \A i \in 1 .. Len(C6_Order) :
              C6_Order[i] \in chains[c].succeeded => C6_Order[i] \in chains[c].started

\* A chain has run all six stages while an older chain of another video has
\* only begun its first stage.
C6_Witness ==
    \E c1, c2 \in ChainIds :
        /\ c1 < c2
        /\ chains[c1].video # chains[c2].video
        /\ chains[c2].succeeded = {C6_Order[i] : i \in 1 .. Len(C6_Order)}
        /\ chains[c1].started = {"download_audio"}
        /\ chains[c1].succeeded = {}

\* C7: an exception raised in any stage leaves the video failed with a
\* non-empty processing_error.
C7_ExceptionMarksFailed ==
    [][\A c \in ChainIds :
          StageRaise(c) =>
              /\ video'[chains[c].video].status = FAILED
              /\ video'[chains[c].video].processing_error # ""]_vars

\* The attempt that failed last had no retry left.
Exhausted(c) ==
    /\ chains[c].pc = "dead"
    /\ chains[c].retries = MaxRetries(chains[c].stage)

\* C8: a failed video's failing chain either still has its retry (or the
\* stage after it) scheduled or has exhausted the retries of the failing
\* stage; a failed video with nothing scheduled has exhausted them.
C8_FailedOnlyAfterRetries ==
    \A v \in Videos :
        (video[v].present /\ video[v].status = FAILED) =>
            /\ video[v].failed_by \in ChainIds
            /\ chains[video[v].failed_by].video = v
            /\ Active(video[v].failed_by) \/ Exhausted(video[v].failed_by)

\* A video is failed, nothing is scheduled for it, and the failing stage
\* was retried until no retry was left.
C8_Witness ==
    \E v \in Videos :
        /\ video[v].present /\ video[v].status = FAILED
        /\ ActiveChains(v) = {} /\ queue[v] = 0
        /\ Exhausted(video[v].failed_by)
        /\ chains[video[v].failed_by].retries > 0

\* C9: a video whose pipeline runs have all ended is indexed or failed.
C9_RunsEndIndexedOrFailed ==
    \A v \in Videos :
        (/\ video[v].present
         /\ \E c \in ChainIds : chains[c].video = v
         /\ ActiveChains(v) = {}
         /\ queue[v] = 0)
            => video[v].status \in {INDEXED, FAILED}

\* C10: a processing request or a reprocess request for a failed video sets
\* it to pending and enqueues exactly one pipeline run.
C10_FailedCanBeReset ==
    [][\A v \in Videos :
          ((ProcessSingleVideoByYoutubeId(v) \/ ReprocessVideo(v))
              /\ video[v].present /\ video[v].status = FAILED)
              => /\ video'[v].status = PENDING
                 /\ queue'[v] = queue[v] + 1]_vars

\* C11: when a failed video is reset to pending, no Segment row of its
\* earlier attempt is left.
C11_ResetClearsSegments ==
    [][\A v \in Videos :
          (video[v].present /\ video[v].status = FAILED /\ video'[v].status = PENDING)
              => SegmentsOf(v)' = {}]_vars

Duration(s) == s.end_time - s.start_time

\* C12: every persisted Segment row has a duration within
\* [min_segment_duration_seconds, max_segment_duration_seconds], hence
\* end_time > start_time; and a segment_transcript execution that leaves out
\* candidates returns without an exception, without marking the video failed
\* and without being enqueued again.
C12_SegmentsWithinBounds ==
    /\ [](\A s \in segments :
            /\ Duration(s) >= min_segment_duration_seconds
            /\ Duration(s) <= max_segment_duration_seconds
            /\ s.end_time > s.start_time)
    /\ [][\A c \in ChainIds :
            (SegmentReturn(c) /\ chains'[c].dropped > 0) =>
                /\ faults' = faults
                /\ video' = video
                /\ chains'[c].stage = "generate_insights"
                /\ chains'[c].pc = "queued"
                /\ \A i \in 1 .. Len(chains'[c].segs) :
                      LET d == chains'[c].segs[i][2] - chains'[c].segs[i][1]
                      IN d >= min_segment_duration_seconds
                         /\ d <= max_segment_duration_seconds]_vars

\* One chain left out a candidate and went on past generate_insights with no
\* exception raised anywhere, and a Segment row of an accepted candidate is
\* persisted.
C12_Witness ==
    /\ faults = 0
    /\ \E c \in ChainIds :
          /\ chains[c].dropped > 0
          /\ "generate_insights" \in chains[c].succeeded
          /\ video[chains[c].video].status # FAILED
    /\ segments # {}

\* C13: every Segment row of an indexed video has its embedding_id set.
C13_IndexedSegmentsEmbedded ==
    \A v \in Videos :
        (video[v].present /\ video[v].status = INDEXED)
            => \A s \in SegmentsOf(v) : s.embedding_id # 0

\* C14: an indexed video has its processed_at set and an empty
\* processing_error.
C14_IndexedHasNoError ==
    \A v \in Videos :
        (video[v].present /\ video[v].status = INDEXED)
            => (video[v].processed_at /\ video[v].processing_error = "")

\* C15: once delete_video has deleted a video, with its vector-index delete
\* having succeeded, no Segment row and no vector-index entry of that video
\* is left, whatever the pipeline stages of the video do meanwhile.
C15_DeleteLeavesNothing ==
    \A v \in Videos :
        (video[v].deleted /\ faults = 0) =>
            /\ SegmentsOf(v) = {}
            /\ \A p \in vectors : p.video_id # v

\* C16: no two vector-index entries carry the same segment_id.
C16_OnePointPerSegment ==
    \A p, q \in vectors : p.segment_id = q.segment_id => p = q

\* ------------------------------------------------------------ rank fusion

\* Segment ids a result list may carry.
SegIds == 1 .. NumIds

\* The ranked lists handed to _reciprocal_rank_fusion (the segment_id of each
\* result, best first).  The semantic list has one entry per point found, so
\* an id can occur in it more than once.
RankedLists == SeqsUpTo(SegIds, MaxListLen)

\* Weight pairs <<semantic_weight, keyword_weight>>, in tenths.
WeightPairs == {<<7, 3>>, <<3, 7>>, <<5, 5>>}

\* Scores are kept as integers: a score x stands for x / (10 * Scale), with
\* Scale a common multiple of the divisors k + rank + 1.
RECURSIVE ScaleTo(_)
ScaleTo(n) == IF n = 0 THEN 1 ELSE (RRF_K + n) * ScaleTo(n - 1)

Scale == ScaleTo(MaxListLen)

\* weight / (k + rank + 1), rank counted from 0.
Contribution(weight, rank) == weight * (Scale \div (RRF_K + rank + 1))

HasKey(scores, id) == \E i \in 1 .. Len(scores) : scores[i].segment_id = id

\* scores[segment_id] = entry: a new key goes to the end of the dict, a known
\* key keeps its place and gets the new value.
SetItem(scores, entry) ==
    IF HasKey(scores, entry.segment_id)
    THEN [i \in 1 .. Len(scores) |->
            IF scores[i].segment_id = entry.segment_id THEN entry ELSE scores[i]]
    ELSE Append(scores, entry)

\* The loop over semantic_results, from position rank on.
RECURSIVE ScoreSemantic(_, _, _, _)
ScoreSemantic(results, weight, rank, scores) ==
    IF rank >= Len(results) THEN scores
    ELSE ScoreSemantic(results, weight, rank + 1,
                       SetItem(scores, [segment_id |-> results[rank + 1],
                                        rrf_score |-> Contribution(weight, rank)]))

\* scores[segment_id]['rrf_score'] += rrf_score
AddScore(scores, id, rrf_score) ==
    [i \in 1 .. Len(scores) |->
        IF scores[i].segment_id = id
        THEN [scores[i] EXCEPT !.rrf_score = @ + rrf_score]
        ELSE scores[i]]

\* The loop over keyword_results, from position rank on.
RECURSIVE ScoreKeyword(_, _, _, _)
ScoreKeyword(results, weight, rank, scores) ==
    IF rank >= Len(results) THEN scores
    ELSE LET id == results[rank + 1]
             rrf_score == Contribution(weight, rank)
         IN ScoreKeyword(results, weight, rank + 1,
                         IF HasKey(scores, id)
                         THEN AddScore(scores, id, rrf_score)
                         ELSE Append(scores, [segment_id |-> id, rrf_score |-> rrf_score]))

\* An ascending sort.
InsertByScoreAlt(sorted, entry) ==
    LET before == Cardinality({i \in 1 .. Len(sorted) : sorted[i].rrf_score <= entry.rrf_score})
    IN SubSeq(sorted, 1, before) \o <<entry>> \o SubSeq(sorted, before + 1, Len(sorted))

\* sorted(..., key=rrf_score, reverse=True) is stable: an entry goes behind
\* the entries, taken before it, whose score is not lower.
InsertByScore(sorted, entry) ==
    LET before == Cardinality({i \in 1 .. Len(sorted) : sorted[i].rrf_score >= entry.rrf_score})
    IN SubSeq(sorted, 1, before) \o <<entry>> \o SubSeq(sorted, before + 1, Len(sorted))

RECURSIVE SortedByScore(_)
SortedByScore(values) ==
    IF values = <<>> THEN <<>>
    ELSE InsertByScore(SortedByScore(SubSeq(values, 1, Len(values) - 1)),
                       values[Len(values)])

\* _reciprocal_rank_fusion
ReciprocalRankFusion(semantic_results, keyword_results, semantic_weight, keyword_weight) ==
    SortedByScore(ScoreKeyword(keyword_results, keyword_weight, 0,
                               ScoreSemantic(semantic_results, semantic_weight, 0, <<>>)))

\* A call of _reciprocal_rank_fusion on two lists.
InitFusion ==
    /\ NoPipeline
    /\ NoBeside
    /\ \E sem \in RankedLists, kw \in RankedLists, w \in WeightPairs :
          search = [phase |-> "called", semantic_results |-> sem, keyword_results |-> kw,
                    semantic_weight |-> w[1], keyword_weight |-> w[2], merged |-> <<>>]

FusionReturn ==
    /\ search.phase = "called"
    /\ search' = [search EXCEPT
                     !.phase = "returned",
                     !.merged = ReciprocalRankFusion(search.semantic_results,
                                                     search.keyword_results,
                                                     search.semantic_weight,
                                                     search.keyword_weight)]
    /\ UNCHANGED <<pipeline, sweep, linking, views>>

NextFusion == FusionReturn

SpecFusion == InitFusion /\ [][NextFusion]_vars

\* ------------------------------------------------------------ search

\* Fields of the SearchResult schema; SearchResponse keeps these of each result.
SearchResultFields == {"id", "title", "summary", "key_takeaways", "relevance_score",
                       "start_time", "end_time", "duration", "view_count", "video",
                       "channel", "categories", "search_score"}

\* SearchResult built from a result dict: keys outside the schema are dropped.
ToSearchResult(result) ==
    [field \in (DOMAIN result) \cap SearchResultFields |-> result[field]]

\* SearchResponse(..., results=results)
ToSearchResponse(results) == [i \in 1 .. Len(results) |-> ToSearchResult(results[i])]

\* Lists without a repeated id: the rows a database query returns.
RowLists(ids) ==
    {list \in RankedLists :
        /\ \A i \in 1 .. Len(list) : list[i] \in ids
        /\ \A i, j \in 1 .. Len(list) : list[i] = list[j] => i = j}

\* The rows in the order opposite to that of the merged results.
EnrichResultsAlt(results, stored) ==
    LET Found(r) == r.segment_id \in stored
        kept == SelectSeq(results, Found)
    IN [i \in 1 .. Len(kept) |->
            [id |-> kept[Len(kept) + 1 - i].segment_id,
             search_score |-> kept[Len(kept) + 1 - i].rrf_score]]

\* _enrich_results: the merged results whose Segment row (joined with its
\* Video and Channel, whatever the status of the Video) is found, in order.
EnrichResults(results, stored) ==
    LET Found(r) == r.segment_id \in stored
        kept == SelectSeq(results, Found)
    IN [i \in 1 .. Len(kept) |->
            [id |-> kept[i].segment_id, search_score |-> kept[i].rrf_score]]

\* hybrid_search with the default weights 0.7 and 0.3.
HybridSearch(semantic_results, keyword_results, limit, stored) ==
    LET merged == ReciprocalRankFusion(semantic_results, keyword_results, 7, 3)
    IN EnrichResults(SubSeq(merged, 1, IF Len(merged) < limit THEN Len(merged) ELSE limit),
                     stored)

\* search_score of the i-th fallback row (from 0), in hundredths:
\* max(0.9 - i * 0.05, 0.1).
FallbackScore(i) == IF 90 - 5 * i > 10 THEN 90 - 5 * i ELSE 10

\* fallback_text_search: one result dict per row found.
FallbackTextSearch(rows) ==
    [i \in 1 .. Len(rows) |->
        [id |-> rows[i], search_score |-> FallbackScore(i - 1),
         search_method |-> "text_fallback"]]

\* Where the try block of search_segments can raise: the embedding service or
\* the vector store, _keyword_search, _enrich_results.
RaisePoints == {"vector", "keyword", "enrich"}

\* A request to search_segments; stored: ids of the Segment rows (with their
\* Video and Channel), indexed: those of them whose Video has status indexed.
\* merged is history: the ids of the fused list, best first.
InitSearch ==
    /\ NoPipeline
    /\ NoBeside
    /\ \E stored \in SUBSET SegIds, limit \in 1 .. MaxLimit :
          \E indexed \in SUBSET stored :
              search = [phase |-> "request", stored |-> stored, indexed |-> indexed,
                        limit |-> limit, raised |-> {}, status |-> 0, merged |-> <<>>,
                        results |-> <<>>, rows |-> <<>>]

\* search_segments, nothing raises: the hybrid results are returned.  The
\* vector store answers with points of any segment (semantic_search has no
\* filter on the video), _keyword_search with rows of indexed videos.
SearchHybrid ==
    /\ search.phase = "request"
    /\ \E sem \in RankedLists, kw \in RowLists(search.indexed) :
          /\ Len(sem) <= 2 * search.limit
          /\ Len(kw) <= 2 * search.limit
          /\ search' = [search EXCEPT
                           !.phase = "response", !.status = 200,
                           !.merged = LET merged == ReciprocalRankFusion(sem, kw, 7, 3)
                                      IN [i \in 1 .. Len(merged) |-> merged[i].segment_id],
                           !.results = ToSearchResponse(
                               HybridSearch(sem, kw, search.limit, search.stored))]
    /\ UNCHANGED <<pipeline, sweep, linking, views>>

\* search_segments, the try block raises at point: the exception is caught
\* and the rows of fallback_text_search are returned.
SearchFallback ==
    /\ search.phase = "request"
    /\ \E point \in RaisePoints, rows \in RowLists(search.indexed) :
          /\ Len(rows) <= search.limit
          /\ search' = [search EXCEPT
                           !.phase = "response", !.status = 200,
                           !.raised = {point}, !.rows = rows,
                           !.results = ToSearchResponse(FallbackTextSearch(rows))]
    /\ UNCHANGED <<pipeline, sweep, linking, views>>

\* search_segments, the try block raises at point and fallback_text_search
\* raises too: the exception leaves the handler (internal server error).
SearchError ==
    /\ search.phase = "request"
    /\ \E point \in RaisePoints :
          search' = [search EXCEPT
                       !.phase = "response", !.status = 500,
                       !.raised = {point, "fallback"}]
    /\ UNCHANGED <<pipeline, sweep, linking, views>>

NextSearch ==
    \/ SearchHybrid
    \/ SearchFallback
    \/ SearchError

SpecSearch == InitSearch /\ [][NextSearch]_vars

\* The result-source label a result carries ("" if none).
SourceLabel(result) ==
    IF "search_method" \in DOMAIN result THEN result.search_method ELSE ""

\* C17: when the vector path raises and the fallback works, the response is
\* a success carrying the lexical rows, each with a result-source label,
\* which the results of a normal (hybrid) response do not carry.
C17_VectorFailureIsLabelled ==
    /\ (search.phase = "response" /\ search.raised = {"vector"}) =>
          /\ search.status = 200
          /\ [i \in 1 .. Len(search.results) |-> search.results[i].id] = search.rows
          /\ \A i \in 1 .. Len(search.results) : SourceLabel(search.results[i]) # ""
    /\ (search.phase = "response" /\ search.raised = {}) =>
          \A i \in 1 .. Len(search.results) : SourceLabel(search.results[i]) = ""

\* C18: when the lexical path (_keyword_search) raises, the response is an
\* error.
C18_LexicalFailureIsAnError ==
    (search.phase = "response" /\ "keyword" \in search.raised) => search.status = 500

\* The positions (from 1) at which id occurs in list.
Positions(list, id) == {i \in 1 .. Len(list) : list[i] = id}

RECURSIVE SumOver(_, _, _)
SumOver(positions, weight, n) ==
    IF n = 0 THEN 0
    ELSE (IF n \in positions THEN Contribution(weight, n - 1) ELSE 0)
         + SumOver(positions, weight, n - 1)

\* The sum of weight / (k + r + 1) over the ranks r at which id occurs in list.
ListScore(list, weight, id) == SumOver(Positions(list, id), weight, Len(list))

\* C19: the fused score of each id is the sum of its contributions
\* w_L / (k + r + 1) over all positions r at which it occurs in the two lists.
C19_ScoreIsSumOfContributions ==
    search.phase = "returned" =>
        \A i \in 1 .. Len(search.merged) :
            search.merged[i].rrf_score =
                ListScore(search.semantic_results, search.semantic_weight,
                          search.merged[i].segment_id)
                + ListScore(search.keyword_results, search.keyword_weight,
                            search.merged[i].segment_id)

\* The ids of a fused list, in order.
IdsOf(merged) == [i \in 1 .. Len(merged) |-> merged[i].segment_id]

\* The place of id in list (the first one, from 1).
IndexOf(list, id) == CHOOSE i \in 1 .. Len(list) :
                        list[i] = id /\ \A j \in 1 .. (i - 1) : list[j] # id

\* C20: the fused list is in non-increasing order of score, holds each id of
\* the two lists exactly once, and orders equal scores by the place at which
\* the id first occurs in the input (semantic list first), so that the order
\* is a function of the inputs; for [A,B,C], [B,C,D] and weights 0.7/0.3, B
\* scores 0.7/62 + 0.3/61, C scores 0.7/63 + 0.3/62 and B comes before C.
C20_FusedOrder ==
    search.phase = "returned" =>
        LET merged == search.merged
            ids == IdsOf(merged)
            input == search.semantic_results \o search.keyword_results
        IN /\ \A i \in 1 .. (Len(merged) - 1) :
                 merged[i].rrf_score >= merged[i + 1].rrf_score
           /\ \A i, j \in 1 .. Len(merged) : ids[i] = ids[j] => i = j
           /\ {ids[i] : i \in 1 .. Len(ids)} = {input[i] : i \in 1 .. Len(input)}
           /\ \A i, j \in 1 .. Len(merged) :
                 (i < j /\ merged[i].rrf_score = merged[j].rrf_score)
                     => IndexOf(input, ids[i]) < IndexOf(input, ids[j])
           /\ (/\ search.semantic_results = <<1, 2, 3>>
               /\ search.keyword_results = <<2, 3, 4>>
               /\ search.semantic_weight = 7
               /\ search.keyword_weight = 3)
                  => /\ merged[IndexOf(ids, 2)].rrf_score
                          = 7 * (Scale \div 62) + 3 * (Scale \div 61)
                     /\ merged[IndexOf(ids, 3)].rrf_score
                          = 7 * (Scale \div 63) + 3 * (Scale \div 62)
                     /\ IndexOf(ids, 2) < IndexOf(ids, 3)

\* The fusion of [A,B,C] and [B,C,D] with weights 0.7/0.3 has returned, with
\* B, C, A, D as its order.
C20_Witness ==
    /\ search.phase = "returned"
    /\ search.semantic_results = <<1, 2, 3>>
    /\ search.keyword_results = <<2, 3, 4>>
    /\ search.semantic_weight = 7
    /\ search.keyword_weight = 3
    /\ IdsOf(search.merged) = <<2, 3, 1, 4>>

\* ------------------------------------------------------------ redelivery

\* The steps a worker takes for the task chain c is at.
Worker(c) ==
    \/ DownloadBegin(c) \/ DownloadReturn(c) \/ DownloadRaise(c)
    \/ TranscribeBegin(c) \/ TranscribeReturn(c) \/ TranscribeRaise(c)
    \/ SegmentBegin(c) \/ SegmentReturn(c) \/ SegmentRaise(c)
    \/ InsightsReturn(c) \/ InsightsRaise(c)
    \/ EmbeddingsBegin(c) \/ EmbeddingsStore(c) \/ EmbeddingsReturn(c) \/ EmbeddingsRaise(c)
    \/ FinalizeBegin(c) \/ FinalizeReturn(c) \/ FinalizeRaise(c)
    \/ VideoGone(c) \/ FinalizeGone(c)

\* worker_prefetch_multiplier = 1, task_acks_late: a message in the broker is
\* taken by a worker, and a worker that lives goes on with its task.
SpecLive == Init /\ [][NextDelete]_vars /\ \A c \in ChainSlots : WF_vars(Worker(c))

StageNames == {Pipeline[i] : i \in 1 .. Len(Pipeline)}

\* The r-th retry of stage s of chain c is in the broker.
Enqueued(c, s, r) ==
    /\ c \in ChainIds
    /\ chains[c].stage = s
    /\ chains[c].retries = r
    /\ chains[c].pc = "queued"

\* That task has returned or has raised.
Completed(c, s, r) ==
    /\ c \in ChainIds
    /\ \/ s \in chains[c].succeeded
       \/ chains[c].pc = "dead"
       \/ chains[c].stage = s /\ chains[c].retries > r

\* The model's supply of Segment ids or point ids is used up.
Capped ==
    \E c \in ChainIds :
        \/ chains[c].stage = "generate_insights"
           /\ nextSegId + Len(chains[c].segs) - 1 > MaxSegments
        \/ chains[c].stage = "create_embeddings" /\ nextPointId > MaxPoints

Swept == 1 .. NumDeletable

\* The sweep queries the indexed videos into its session.
SweepLoad ==
    /\ sweep.phase = "none"
    /\ LET videos == {v \in Swept : video[v].present /\ video[v].status = INDEXED}
       IN sweep' = [sweep EXCEPT !.phase = "checking", !.videos = videos, !.todo = videos]
    /\ UNCHANGED <<pipeline, search, linking, views>>

\* check_video_exists(video) answers True: nothing to do for this video.
SweepAvailable(v) ==
    /\ sweep.phase = "checking"
    /\ v \in sweep.todo
    /\ sweep' = [sweep EXCEPT !.todo = @ \ {v}]
    /\ UNCHANGED <<pipeline, search, linking, views>>

\* check_video_exists(video) answers False: status is set to removed on the
\* object in the session and delete_video_embeddings is called at once (it
\* deletes the points of the video, or logs the vector store's exception).
SweepUnavailable(v) ==
    /\ sweep.phase = "checking"
    /\ v \in sweep.todo
    /\ \/ /\ vectors' = {p \in vectors : p.video_id # v}
          /\ sweep' = [sweep EXCEPT !.todo = @ \ {v}, !.marked = @ \cup {v},
                          !.purged = IF \E p \in vectors : p.video_id = v
                                     THEN @ \cup {v} ELSE @]
          /\ UNCHANGED faults
       \/ /\ faults < MaxFaults
          /\ faults' = faults + 1
          /\ sweep' = [sweep EXCEPT !.todo = @ \ {v}, !.marked = @ \cup {v}]
          /\ UNCHANGED vectors
    /\ UNCHANGED <<video, segments, queue, chains, nextSegId, nextPointId, lost,
                   search, linking, views>>

\* The single commit after the loop: one UPDATE by id per marked video.
SweepCommit ==
    /\ sweep.phase = "checking"
    /\ sweep.todo = {}
    /\ video' = [v \in Videos |->
                    IF v \in sweep.marked /\ video[v].present
                    THEN [video[v] EXCEPT !.status = REMOVED]
                    ELSE video[v]]
    /\ sweep' = [sweep EXCEPT !.phase = "done"]
    /\ UNCHANGED <<segments, vectors, queue, chains, nextSegId, nextPointId, faults, lost,
                   search, linking, views>>

\* An exception in the loop or in the commit: the session is rolled back and
\* the exception is raised again.
SweepRollback ==
    /\ sweep.phase = "checking"
    /\ faults < MaxFaults
    /\ faults' = faults + 1
    /\ sweep' = [sweep EXCEPT !.phase = "failed"]
    /\ UNCHANGED <<video, segments, vectors, queue, chains, nextSegId, nextPointId, lost,
                   search, linking, views>>

\* The pipeline of the swept videos with reprocess_video and one run of the
\* sweep.
NextSweep ==
    \/ \E v \in Swept : PollChannel(v)
    \/ \E v \in Swept : ProcessVideo(v)
    \/ \E c \in ChainSlots : DownloadBegin(c)
    \/ \E c \in ChainSlots : DownloadReturn(c)
    \/ \E c \in ChainSlots : DownloadRaise(c)
    \/ \E c \in ChainSlots : TranscribeBegin(c)
    \/ \E c \in ChainSlots : TranscribeReturn(c)
    \/ \E c \in ChainSlots : TranscribeRaise(c)
    \/ \E c \in ChainSlots : SegmentBegin(c)
    \/ \E c \in ChainSlots : SegmentReturn(c)
    \/ \E c \in ChainSlots : SegmentRaise(c)
    \/ \E c \in ChainSlots : InsightsReturn(c)
    \/ \E c \in ChainSlots : InsightsRaise(c)
    \/ \E c \in ChainSlots : InsightsLost(c)
    \/ \E c \in ChainSlots : EmbeddingsBegin(c)
    \/ \E c \in ChainSlots : EmbeddingsStore(c)
    \/ \E c \in ChainSlots : EmbeddingsReturn(c)
    \/ \E c \in ChainSlots : EmbeddingsRaise(c)
    \/ \E c \in ChainSlots : FinalizeBegin(c)
    \/ \E c \in ChainSlots : FinalizeReturn(c)
    \/ \E c \in ChainSlots : FinalizeRaise(c)
    \/ \E c \in ChainSlots : WorkerLost(c)
    \/ \E v \in Swept : ReprocessVideo(v)
    \/ SweepLoad
    \/ \E v \in Swept : SweepAvailable(v)
    \/ \E v \in Swept : SweepUnavailable(v)
    \/ SweepCommit
    \/ SweepRollback

SpecSweep == Init /\ [][NextSweep]_vars

\* C22: the status of a video becomes removed only from indexed, whatever
\* the sweep is interleaved with.
C22_RemovedOnlyFromIndexed ==
    [][\A v \in Videos :
          (video[v].status # REMOVED /\ video'[v].status = REMOVED)
              => video[v].status = INDEXED]_vars

\* C27: when the sweep rolls back, no video that is still indexed has had
\* its points deleted by the sweep.
C27_RollbackRestoresCorpus ==
    [][SweepRollback =>
          \A v \in sweep.purged : ~(video'[v].present /\ video'[v].status = INDEXED)]_vars

\* ------------------------------------------------------------ download_audio and its source

\* The pipeline of one video, with the source of its audio found removed or
\* private by some attempts of download_audio.
NextDownload ==
    \/ \E v \in Deletable : PollChannel(v)
    \/ \E v \in Deletable : ProcessVideo(v)
    \/ \E c \in ChainSlots : DownloadBegin(c)
    \/ \E c \in ChainSlots : DownloadReturn(c)
    \/ \E c \in ChainSlots : DownloadRaise(c)
    \/ \E c \in ChainSlots : DownloadUnavailable(c)
    \/ \E c \in ChainSlots : TranscribeBegin(c)
    \/ \E c \in ChainSlots : TranscribeReturn(c)
    \/ \E c \in ChainSlots : TranscribeRaise(c)
    \/ \E c \in ChainSlots : SegmentBegin(c)
    \/ \E c \in ChainSlots : SegmentReturn(c)
    \/ \E c \in ChainSlots : SegmentRaise(c)
    \/ \E c \in ChainSlots : InsightsReturn(c)
    \/ \E c \in ChainSlots : InsightsRaise(c)
    \/ \E c \in ChainSlots : EmbeddingsBegin(c)
    \/ \E c \in ChainSlots : EmbeddingsStore(c)
    \/ \E c \in ChainSlots : EmbeddingsReturn(c)
    \/ \E c \in ChainSlots : EmbeddingsRaise(c)
    \/ \E c \in ChainSlots : FinalizeBegin(c)
    \/ \E c \in ChainSlots : FinalizeReturn(c)
    \/ \E c \in ChainSlots : FinalizeRaise(c)

SpecDownload == Init /\ [][NextDownload]_vars

\* C23: when download_audio fails on a source that is removed or private,
\* the video is marked failed and the task is not retried (which tells the
\* outcome from that of a transient error); a transient error is retried
\* until the retries are used up.
C23_UnavailableIsNotRetried ==
    /\ [][\A c \in ChainSlots :
            DownloadUnavailable(c) =>
                /\ video'[chains[c].video].status = FAILED
                /\ chains'[c].pc = "dead"]_vars
    /\ [][\A c \in ChainSlots :
            (DownloadRaise(c) /\ ~chains[c].unavailable) =>
                IF chains[c].retries < DownloadMaxRetries
                THEN chains'[c].pc = "queued" /\ chains'[c].retries = chains[c].retries + 1
                ELSE chains'[c].pc = "dead"]_vars

\* ------------------------------------------------------------ category linking

\* Category names: those a Category row can carry and those the insight
\* capability can return.
Names == 1 .. NumNames

\* insights.categories: a list of labels.
LabelLists == SeqsUpTo(Names, MaxLabels)

\* generate_insights has flushed the Segment of one candidate and is about to
\* link its categories; categories: the names of the Category rows.
InitLinking ==
    /\ NoPipeline
    /\ search = NoSearch
    /\ sweep = NoSweep
    /\ views = NoViews
    /\ \E categories \in SUBSET Names, labels \in LabelLists :
          linking = [phase |-> "flushed", categories |-> categories, labels |-> labels,
                     added |-> <<>>, table |-> categories, persisted |-> FALSE,
                     links |-> {}, failed |-> FALSE]

\* The loop over insights.categories: one SegmentCategory(segment_id,
\* category_id) is added to the session per label that names a Category.
LinkCategories ==
    /\ linking.phase = "flushed"
    /\ LET Resolved(cat_name) == cat_name \in linking.categories
       IN linking' = [linking EXCEPT !.phase = "linked",
                                     !.added = SelectSeq(linking.labels, Resolved)]
    /\ UNCHANGED <<pipeline, search, sweep, views>>

\* The rows added to the session have distinct primary keys.
DistinctKeys(added) == \A i, j \in 1 .. Len(added) : added[i] = added[j] => i = j

\* db.commit(): the Segment and its links are inserted.
LinkingCommit ==
    /\ linking.phase = "linked"
    /\ DistinctKeys(linking.added)
    /\ linking' = [linking EXCEPT !.phase = "done", !.persisted = TRUE,
                       !.links = {linking.added[i] : i \in 1 .. Len(linking.added)}]
    /\ UNCHANGED <<pipeline, search, sweep, views>>

\* db.commit() with two SegmentCategory rows of one primary key (segment_id,
\* category_id): the insert raises, the except block rolls back, marks the
\* video failed and retries the stage.
LinkingRaise ==
    /\ linking.phase = "linked"
    /\ ~DistinctKeys(linking.added)
    /\ linking' = [linking EXCEPT !.phase = "done", !.failed = TRUE]
    /\ UNCHANGED <<pipeline, search, sweep, views>>

NextLinking ==
    \/ LinkCategories
    \/ LinkingCommit
    \/ LinkingRaise

SpecLinking == InitLinking /\ [][NextLinking]_vars

\* C24: for every list of labels, no Category row is created, the stage does
\* not fail, and the Segment is persisted with links to exactly the existing
\* Categories the labels name.
C24_UnlinkableLabelsAreSkipped ==
    linking.phase = "done" =>
        /\ linking.table = linking.categories
        /\ ~linking.failed
        /\ linking.persisted
        /\ linking.links = {linking.labels[i] : i \in 1 .. Len(linking.labels)}
                              \cap linking.categories

\* ------------------------------------------------------------ results of hybrid_search

\* The ids of the results of the response, in order.
ResultIds == [i \in 1 .. Len(search.results) |-> search.results[i].id]

\* The fused list cut to limit.
Truncated ==
    SubSeq(search.merged, 1,
           IF Len(search.merged) < search.limit THEN Len(search.merged) ELSE search.limit)

\* C25: a hybrid response has at most limit results: one result for each id
\* of the fused list cut to limit that has its rows, none for the other ids,
\* in the order of the fused list.
C25_EnrichedInFusedOrder ==
    (search.phase = "response" /\ search.raised = {}) =>
        /\ search.status = 200
        /\ Len(ResultIds) <= search.limit
        /\ \A i, j \in 1 .. Len(ResultIds) : ResultIds[i] = ResultIds[j] => i = j
        /\ {ResultIds[i] : i \in 1 .. Len(ResultIds)}
              = {Truncated[i] : i \in 1 .. Len(Truncated)} \cap search.stored
        /\ \A i, j \in 1 .. Len(ResultIds) :
              i < j => IndexOf(search.merged, ResultIds[i]) < IndexOf(search.merged, ResultIds[j])

\* A fused list longer than limit, with an id without rows among the first
\* limit and two results around it.
C25_Witness ==
    /\ search.phase = "response"
    /\ search.raised = {}
    /\ Len(search.merged) > search.limit
    /\ Len(ResultIds) = 2
    /\ \E i \in 1 .. Len(Truncated) : Truncated[i] \notin search.stored

\* C26: every segment a hybrid response returns belongs to a video whose
\* status is indexed.
C26_ResultsAreIndexed ==
    (search.phase = "response" /\ search.raised = {}) =>
        \A i \in 1 .. Len(ResultIds) : ResultIds[i] \in search.indexed

\* ------------------------------------------------------------ deletions beside delete_video

\* delete_channel: db.delete(channel) and commit.  The videos of the channel
\* go with it (cascade), and their Segment rows with them; the vector index
\* is not touched.  (Every video of the model is of the one channel; none of
\* them can be polled afterwards.)
DeleteChannel ==
    /\ \E v \in Videos : video[v].present
    /\ video' = [v \in Videos |-> [NoVideo EXCEPT !.deleted = TRUE]]
    /\ segments' = {}
    /\ UNCHANGED <<vectors, queue, chains, nextSegId, nextPointId, faults, lost, beside>>

\* cleanup_failed_videos: the query names Video.retry_count; building it
\* raises when Video has no such attribute, and the except block rolls back
\* and raises again.  Otherwise failed videos that are old enough are deleted
\* (with their Segment rows; the vector index is not touched).
CleanupFailedVideos ==
    /\ IF "retry_count" \in VideoColumns
       THEN /\ \E failed_videos \in SUBSET {v \in Videos : video[v].present
                                                          /\ video[v].status = FAILED} :
                 /\ video' = [v \in Videos |->
                                 IF v \in failed_videos
                                 THEN [NoVideo EXCEPT !.deleted = TRUE] ELSE video[v]]
                 /\ segments' = {s \in segments : s.video_id \notin failed_videos}
            /\ UNCHANGED faults
       ELSE /\ faults < MaxFaults
            /\ faults' = faults + 1
            /\ UNCHANGED <<video, segments>>
    /\ UNCHANGED <<vectors, queue, chains, nextSegId, nextPointId, lost, beside>>

\* Video.youtube_id (unique): the model names a video by it.
YoutubeId(v) == v

\* score_video(w) > score_video(v): (is_indexed, seg_count, created_at).
ScoresHigher(w, v) ==
    LET is_indexed(x) == IF video[x].status = INDEXED THEN 1 ELSE 0
        seg_count(x) == Cardinality({s \in segments : s.video_id = x})
    IN \/ is_indexed(w) > is_indexed(v)
       \/ is_indexed(w) = is_indexed(v) /\ seg_count(w) > seg_count(v)
       \/ is_indexed(w) = is_indexed(v) /\ seg_count(w) = seg_count(v) /\ w > v

\* Step 1 of cleanup_duplicates: of the videos sharing a youtube_id, all but
\* the one that scores highest.
DuplicateVideos ==
    {v \in Videos : /\ video[v].present
                    /\ \E w \in Videos \ {v} : /\ video[w].present
                                               /\ YoutubeId(w) = YoutubeId(v)
                                               /\ ScoresHigher(w, v)}

\* The Segment rows of one (video_id, start_time, end_time).
SameWindow(s, t) ==
    s.video_id = t.video_id /\ s.start_time = t.start_time /\ s.end_time = t.end_time

\* The group's newest row.
FirstCreatedAlt(group) == CHOOSE s \in group : \A t \in group : s.id >= t.id

\* order_by(Segment.created_at), first row: rows are created in the order of
\* their ids.
FirstCreated(group) == CHOOSE s \in group : \A t \in group : s.id <= t.id

\* Step 2: of each group of more than one row, segments[1:].
DuplicateSegments ==
    {s \in segments :
        LET group == {t \in segments : SameWindow(s, t)}
        IN Cardinality(group) > 1 /\ s # FirstCreated(group)}

\* Step 3: Segment rows whose Video is missing.
OrphanSegments == {s \in segments : ~video[s.video_id].present}

\* The points cleanup_duplicates asks the vector store to delete: those of the
\* duplicate videos (by video_id) and those the deleted Segment rows refer to
\* (by embedding_id).
CleanupPoints ==
    {p \in vectors :
        \/ p.video_id \in DuplicateVideos
        \/ \E s \in DuplicateSegments \cup OrphanSegments : s.embedding_id = p.id}

\* The vector store deletes at once; a delete that raises is logged (kept:
\* the points of such deletes).
CleanupVectors ==
    \E kept \in SUBSET CleanupPoints :
        /\ faults + Cardinality(kept) <= MaxFaults
        /\ faults' = faults + Cardinality(kept)
        /\ vectors' = vectors \ (CleanupPoints \ kept)

\* cleanup_duplicates completes: the single commit deletes the rows.
CleanupDuplicates ==
    /\ CleanupVectors
    /\ video' = [v \in Videos |->
                    IF v \in DuplicateVideos THEN [NoVideo EXCEPT !.deleted = TRUE]
                    ELSE video[v]]
    /\ segments' = {s \in segments : /\ s.video_id \notin DuplicateVideos
                                     /\ s \notin DuplicateSegments
                                     /\ s \notin OrphanSegments}
    /\ UNCHANGED <<queue, chains, nextSegId, nextPointId, lost, beside>>

\* cleanup_duplicates raises at its commit: rollback; the points are gone.
CleanupDuplicatesRollback ==
    /\ faults < MaxFaults
    /\ \E p \in SUBSET CleanupPoints :
          /\ vectors' = vectors \ p
          /\ faults' = faults + 1
    /\ UNCHANGED <<video, segments, queue, chains, nextSegId, nextPointId, lost, beside>>

\* The pipeline of one video with the operations that delete rows.
NextCleanup ==
    \/ \E v \in Deletable : PollChannel(v)
    \/ \E v \in Deletable : ProcessVideo(v)
    \/ \E c \in ChainSlots : DownloadBegin(c)
    \/ \E c \in ChainSlots : DownloadReturn(c)
    \/ \E c \in ChainSlots : DownloadRaise(c)
    \/ \E c \in ChainSlots : TranscribeBegin(c)
    \/ \E c \in ChainSlots : TranscribeReturn(c)
    \/ \E c \in ChainSlots : TranscribeRaise(c)
    \/ \E c \in ChainSlots : SegmentBegin(c)
    \/ \E c \in ChainSlots : SegmentReturn(c)
    \/ \E c \in ChainSlots : SegmentRaise(c)
    \/ \E c \in ChainSlots : InsightsReturn(c)
    \/ \E c \in ChainSlots : InsightsRaise(c)
    \/ \E c \in ChainSlots : InsightsLost(c)
    \/ \E c \in ChainSlots : EmbeddingsBegin(c)
    \/ \E c \in ChainSlots : EmbeddingsStore(c)
    \/ \E c \in ChainSlots : EmbeddingsReturn(c)
    \/ \E c \in ChainSlots : EmbeddingsRaise(c)
    \/ \E c \in ChainSlots : FinalizeBegin(c)
    \/ \E c \in ChainSlots : FinalizeReturn(c)
    \/ \E c \in ChainSlots : FinalizeRaise(c)
    \/ \E c \in ChainSlots : WorkerLost(c)
    \/ \E c \in ChainSlots : VideoGone(c)
    \/ \E c \in ChainSlots : FinalizeGone(c)
    \/ DeleteChannel
    \/ CleanupFailedVideos
    \/ CleanupDuplicates
    \/ CleanupDuplicatesRollback

SpecCleanup == Init /\ [][NextCleanup]_vars

\* C28: delete_channel, cleanup_failed_videos and cleanup_duplicates leave no
\* point whose video_id is that of a video they deleted.
C28_DeletionsLeaveNoPoints ==
    [][(DeleteChannel \/ CleanupFailedVideos \/ CleanupDuplicates) =>
          \A v \in Videos :
              (video[v].present /\ ~video'[v].present)
                  => \A p \in vectors' : p.video_id # v]_vars

\* C29: when cleanup_duplicates has completed, no two Segment rows share
\* (video_id, start_time, end_time), no Segment row is of a missing video,
\* and of every group of rows sharing a window exactly the oldest is left.
C29_OldestOfEachGroupSurvives ==
    [][CleanupDuplicates =>
          /\ \A s, t \in segments' : SameWindow(s, t) => s = t
          /\ \A s \in segments' : video'[s.video_id].present
          /\ \A s \in segments :
                video'[s.video_id].present =>
                    LET group == {t \in segments : SameWindow(s, t)}
                    IN {t \in segments' : SameWindow(s, t)}
                          = {t \in group : \A u \in group : t.id <= u.id}]_vars

\* Two Segment rows were created for the video; the older one is all that is
\* left.
C29_Witness ==
    /\ nextSegId = 3
    /\ \E v \in Videos : video[v].present
    /\ \E s \in segments : s.id = 1 /\ segments = {s}

\* ------------------------------------------------------------ get_segment

\* N requests for one Segment are being served (each by its own session).
\* row: the columns of the Segment row the requests can touch, updated_at as
\* the time of the last UPDATE on the clock of the database; video: the
\* view_count of its Video; before: both as they were.  read: the view_count
\* a request has loaded.
InitViews ==
    /\ NoPipeline
    /\ search = NoSearch
    /\ sweep = NoSweep
    /\ linking = NoLinking
    /\ \E n \in 1 .. MaxRequests, view_count \in 0 .. MaxViews :
          LET row == [view_count |-> view_count, updated_at |-> 0]
              video_row == [view_count |-> 0]
          IN views = [phase |-> "serving", n |-> n, clock |-> 0,
                      row |-> row, video |-> video_row,
                      before |-> [row |-> row, video |-> video_row],
                      requests |-> [r \in 1 .. n |-> [pc |-> "start", read |-> 0]]]

Requests == 1 .. MaxRequests

\* db.query(Segment).filter(Segment.id == segment_id).first()
SegmentLoad(r) ==
    /\ views.phase = "serving"
    /\ r \in 1 .. views.n
    /\ views.requests[r].pc = "start"
    /\ views' = [views EXCEPT !.requests[r] = [pc |-> "loaded", read |-> views.row.view_count]]
    /\ UNCHANGED <<pipeline, search, sweep, linking>>

\* segment.view_count += 1 and db.commit(): the UPDATE writes the value
\* computed from the loaded one, and updated_at (onupdate) with it.
SegmentCommit(r) ==
    /\ views.phase = "serving"
    /\ r \in 1 .. views.n
    /\ views.requests[r].pc = "loaded"
    /\ views' = [views EXCEPT !.requests[r].pc = "done",
                              !.clock = @ + 1,
                              !.row = [view_count |-> views.requests[r].read + 1,
                                       updated_at |-> views.clock + 1]]
    /\ UNCHANGED <<pipeline, search, sweep, linking>>

NextViews ==
    \/ \E r \in Requests : SegmentLoad(r)
    \/ \E r \in Requests : SegmentCommit(r)

SpecViews == InitViews /\ [][NextViews]_vars

\* Every request has been answered.
AllServed ==
    /\ views.phase = "serving"
    /\ \A r \in 1 .. views.n : views.requests[r].pc = "done"

\* C30: when the N requests have been answered, view_count is N higher than
\* before, and nothing else of the Segment or of its Video has changed.
C30_EveryViewIsCounted ==
    AllServed =>
        /\ views.row.view_count = views.before.row.view_count + views.n
        /\ views.row.updated_at = views.before.row.updated_at
        /\ views.video = views.before.video

====
